---- MODULE Spec2Model ----
(***************************************************************************)
(* A model of the task scheduler of src/src/lib.rs: the registry           *)
(* (TaskScheduler.tasks), the in-degree table (first_level_dep), the       *)
(* reverse-dependency index (dependents), add_task and schedule_tasks      *)
(* (Kahn's algorithm with a cumulative u32 timeline).                      *)
(*                                                                         *)
(* schedule_tasks borrows the scheduler immutably and add_task mutably, so *)
(* the two never interleave: add_task is one atomic action and             *)
(* schedule_tasks is a process whose position is pc.                       *)
(***************************************************************************)
EXTENDS Integers, Sequences, FiniteSets, TLC

\* ------------------------------------------------------------------ bounds
\* Longest dependency list handed to add_task.
MaxDeps == 2
\* Longest dependency list of a task whose duration is u32::MAX.
MaxLongDeps == 1
\* schedule_tasks calls made between two add_task calls.
MaxRuns == 2

\* Task names the callers use.
Names == {"A", "B", "C"}

\* ------------------------------------------------------ u32 arithmetic
\* Width of Task.duration and of the running counter `time`.
U32Bits == 32
\* A u32 is kept as two 16-bit limbs <<high, low>>; a sum that has not been
\* reduced yet keeps an unbounded high limb, so that it is exact.
Limb == 2 ^ (U32Bits \div 2)

U32(n) == <<n \div Limb, n % Limb>>
U32Max == <<Limb - 1, Limb - 1>>

\* The mathematical sum a + b.
WideAdd(a, b) ==
    LET lo == a[2] + b[2]
    IN  <<a[1] + b[1] + (lo \div Limb), lo % Limb>>

\* Whether a sum is representable in a u32.
FitsU32(w) == w[1] < Limb

\* Reduction modulo 2^32 (what `+=` does when overflow checks are off).
WrapU32(w) == <<w[1] % Limb, w[2]>>

\* a >= b on (wide) numbers.
Geq(a, b) == a[1] > b[1] \/ (a[1] = b[1] /\ a[2] >= b[2])

\* Durations the callers use: a small one and u32::MAX.
Durations == {U32(1), U32Max}

\* ------------------------------------------------------------------ helpers
\* All sequences over S of length at most n.
SeqUpTo(S, n) == UNION {[1..k -> S] : k \in 0..n}

\* The add_task calls the callers make.
Calls ==
    {c \in [name : Names, dependencies : SeqUpTo(Names, MaxDeps), duration : Durations] :
        c.duration = U32Max => Len(c.dependencies) <= MaxLongDeps}

\* The orders in which a HashMap with key set S may iterate.
IterOrders(S) ==
    {p \in [1..Cardinality(S) -> S] : \A i, j \in DOMAIN p : p[i] = p[j] => i = j}

\* The value usize wraps to when 0 is decremented with overflow checks off
\* (usize::MAX): no run can bring it back to 0, so one mark stands for it.
UsizeWrapped == -1

NoResult == [kind |-> "None", order |-> <<>>]

VARIABLES
    tasks,            \* TaskScheduler.tasks: name -> [dependencies, duration]
    first_level_dep,  \* TaskScheduler.first_level_dep: name -> usize
    dependents,       \* TaskScheduler.dependents: name -> Vec of names
    iter_order,       \* the order in which an iteration of first_level_dep
                      \* meets its keys of degree 0 (the other keys are skipped)
    overflow_checks,  \* the build: "on" (debug profile: an overflow panics),
                      \* "off" (release profile: it wraps), or "unknown" as
                      \* long as no run has met an overflow
    pc,               \* "idle", or "loop" while schedule_tasks runs
    zero_in_degree,   \* schedule_tasks: the frontier (VecDeque)
    in_degree,        \* schedule_tasks: the per-call copy of first_level_dep
    order,            \* schedule_tasks: the entries pushed so far
    time,             \* schedule_tasks: the running counter (u32)
    result,           \* outcome of the latest schedule_tasks call
    prev_result,      \* outcome of the call before it, no add_task in between
    runs,             \* schedule_tasks calls since the latest add_task call
    last_call,        \* how the latest API call ended
    registered        \* history: the names in the order add_task registered them

stored == <<tasks, first_level_dep, dependents, iter_order>>
locals == <<zero_in_degree, in_degree, order, time>>
vars == <<tasks, first_level_dep, dependents, iter_order, overflow_checks, pc,
          zero_in_degree, in_degree, order, time, result, prev_result, runs,
          last_call, registered>>

\* TaskScheduler::new. The build is fixed but unknown: it is settled when the
\* first overflow shows it, and stays as settled.
Init ==
    /\ tasks = <<>>
    /\ first_level_dep = <<>>
    /\ dependents = <<>>
    /\ iter_order = <<>>
    /\ overflow_checks = "unknown"
    /\ pc = "idle"
    /\ zero_in_degree = <<>>
    /\ in_degree = <<>>
    /\ order = <<>>
    /\ time = U32(0)
    /\ result = NoResult
    /\ prev_result = NoResult
    /\ runs = 0
    /\ last_call = "new"
    /\ registered = <<>>

\* ------------------------------------------------------------------ add_task
\* map with key k set to v (HashMap::insert).
Insert(map, k, v) == [x \in DOMAIN map \cup {k} |-> IF x = k THEN v ELSE map[x]]

\* The loop of lines 63-68: name is appended to the reverse list of every
\* dependency, in the order of the list, creating the list when absent.
\* (variant) the name is put at the front of each reverse list, not at the back.
RECURSIVE PushDependentsFront(_, _, _)
PushDependentsFront(deps, name, index) ==
    IF deps = <<>> THEN index
    ELSE LET dep == Head(deps)
             old == IF dep \in DOMAIN index THEN index[dep] ELSE <<>>
         IN  PushDependentsFront(Tail(deps), name,
                                 Insert(index, dep, <<name>> \o old))

\* (variant) the name is not appended to a reverse list that already ends with it.
RECURSIVE PushDependentsDedup(_, _, _)
PushDependentsDedup(deps, name, index) ==
    IF deps = <<>> THEN index
    ELSE LET dep == Head(deps)
             old == IF dep \in DOMAIN index THEN index[dep] ELSE <<>>
             new == IF old # <<>> /\ old[Len(old)] = name THEN old
                    ELSE Append(old, name)
         IN  PushDependentsDedup(Tail(deps), name, Insert(index, dep, new))

\* (variant) the dependency's own name is appended to its reverse list.
RECURSIVE PushDependentsWrongName(_, _, _)
PushDependentsWrongName(deps, name, index) ==
    IF deps = <<>> THEN index
    ELSE LET dep == Head(deps)
             old == IF dep \in DOMAIN index THEN index[dep] ELSE <<>>
         IN  PushDependentsWrongName(Tail(deps), name,
                                     Insert(index, dep, Append(old, dep)))

RECURSIVE PushDependents(_, _, _)
PushDependents(deps, name, index) ==
    IF deps = <<>> THEN index
    ELSE LET dep == Head(deps)
             old == IF dep \in DOMAIN index THEN index[dep] ELSE <<>>
         IN  PushDependents(Tail(deps), name, Insert(index, dep, Append(old, name)))

\* (variant) a dependency named twice is counted once.
InitialDegreeDistinct(dependencies) ==
    Cardinality({dependencies[i] : i \in DOMAIN dependencies})

\* (variant) only the dependencies registered so far are counted.
InitialDegreeRegistered(dependencies) ==
    Cardinality({i \in DOMAIN dependencies : dependencies[i] \in DOMAIN tasks})

\* Line 59: the in-degree stored for a new task.
InitialDegree(dependencies) == Len(dependencies)

\* (variant) the in-degree is stored before the duplicate check is made.
AddTaskInsertFirst(name, dependencies, duration) ==
    /\ pc = "idle"
    /\ runs' = 0
    /\ result' = NoResult
    /\ prev_result' = NoResult
    /\ UNCHANGED <<overflow_checks, pc, locals>>
    /\ first_level_dep' = Insert(first_level_dep, name, InitialDegree(dependencies))
    /\ IF name \in DOMAIN tasks
       THEN /\ last_call' = "add_task_panic"
            /\ UNCHANGED <<tasks, dependents, iter_order, registered>>
       ELSE /\ last_call' = "add_task"
            /\ registered' = Append(registered, name)
            /\ dependents' = PushDependents(dependencies, name, dependents)
            /\ tasks' = Insert(tasks, name,
                               [dependencies |-> dependencies, duration |-> duration])
            /\ iter_order' \in IterOrders({t \in DOMAIN first_level_dep' :
                                                first_level_dep'[t] = 0})

AddTask(name, dependencies, duration) ==
    /\ pc = "idle"
    /\ runs' = 0
    /\ result' = NoResult
    /\ prev_result' = NoResult
    /\ UNCHANGED <<overflow_checks, pc, locals>>
    /\ IF name \in DOMAIN tasks
       THEN \* panic!("Task with the same name already exists")
            /\ last_call' = "add_task_panic"
            /\ UNCHANGED <<stored, registered>>
       ELSE /\ last_call' = "add_task"
            /\ registered' = Append(registered, name)
            /\ first_level_dep' = Insert(first_level_dep, name, InitialDegree(dependencies))
            /\ dependents' = PushDependents(dependencies, name, dependents)
            /\ tasks' = Insert(tasks, name,
                               [dependencies |-> dependencies, duration |-> duration])
            /\ iter_order' \in IterOrders({t \in DOMAIN first_level_dep' :
                                                first_level_dep'[t] = 0})

\* ------------------------------------------------------------ schedule_tasks
\* Lines 74-86: the locals, and the seeding of the frontier in the iteration
\* order of the copied in-degree table.
\* (variants) schedule_tasks begun with another frontier than the seeding of
\* lines 82-86 gives.
BeginWith(queue) ==
    /\ pc = "idle"
    /\ runs < MaxRuns
    /\ pc' = "loop"
    /\ in_degree' = first_level_dep
    /\ zero_in_degree' = queue
    /\ order' = <<>>
    /\ time' = U32(0)
    /\ last_call' = "schedule_tasks"
    /\ UNCHANGED <<stored, overflow_checks, result, prev_result, runs, registered>>

\* The table is rebuilt for the call, so that its iteration order is a new one.
ScheduleBeginReseeded ==
    \E queue \in IterOrders({t \in DOMAIN first_level_dep : first_level_dep[t] = 0}) :
        BeginWith(queue)

\* The seeds are pushed to the front of the frontier.
ScheduleBeginPushFront ==
    LET seeds == SelectSeq(iter_order, LAMBDA t : first_level_dep[t] = 0)
    IN  BeginWith([i \in 1..Len(seeds) |-> seeds[Len(seeds) + 1 - i]])

\* Every task is seeded, whatever its in-degree.
ScheduleBeginSeedAll ==
    \E queue \in IterOrders(DOMAIN first_level_dep) : BeginWith(queue)

ScheduleBegin ==
    /\ pc = "idle"
    /\ runs < MaxRuns
    /\ pc' = "loop"
    /\ in_degree' = first_level_dep
    /\ zero_in_degree' = SelectSeq(iter_order, LAMBDA t : first_level_dep[t] = 0)
    /\ order' = <<>>
    /\ time' = U32(0)
    /\ last_call' = "schedule_tasks"
    /\ UNCHANGED <<stored, overflow_checks, result, prev_result, runs, registered>>

\* The builds the run may turn out to be.
Builds == IF overflow_checks = "unknown" THEN {"on", "off"} ELSE {overflow_checks}

\* Lines 114-128: the walk over the reverse list of the task just dequeued, in
\* build `checks`. The state is [deg, queue, underflow]: underflow is set when
\* `*degree -= 1` met a degree of 0 (a panic when checks = "on").
\* (variant) the dependent is pushed after every decrement, ready or not.
RECURSIVE RelaxPushAlways(_, _, _)
RelaxPushAlways(neighbors, st, checks) ==
    IF neighbors = <<>> \/ (st.underflow /\ checks = "on") THEN st
    ELSE LET neighbor == Head(neighbors) IN
         IF neighbor \notin DOMAIN st.deg THEN RelaxPushAlways(Tail(neighbors), st, checks)
         ELSE LET degree == st.deg[neighbor] IN
              IF degree = 0 /\ checks = "on"
              THEN [st EXCEPT !.underflow = TRUE]
              ELSE LET new == IF degree <= 0 THEN UsizeWrapped ELSE degree - 1
                   IN  RelaxPushAlways(Tail(neighbors),
                             [deg |-> [st.deg EXCEPT ![neighbor] = new],
                              queue |-> Append(st.queue, neighbor),
                              underflow |-> st.underflow \/ degree = 0],
                             checks)

\* (variant) a dependent that became ready is pushed to the front of the frontier.
RECURSIVE RelaxPushFront(_, _, _)
RelaxPushFront(neighbors, st, checks) ==
    IF neighbors = <<>> \/ (st.underflow /\ checks = "on") THEN st
    ELSE LET neighbor == Head(neighbors) IN
         IF neighbor \notin DOMAIN st.deg THEN RelaxPushFront(Tail(neighbors), st, checks)
         ELSE LET degree == st.deg[neighbor] IN
              IF degree = 0 /\ checks = "on"
              THEN [st EXCEPT !.underflow = TRUE]
              ELSE LET new == IF degree <= 0 THEN UsizeWrapped ELSE degree - 1
                   IN  RelaxPushFront(Tail(neighbors),
                             [deg |-> [st.deg EXCEPT ![neighbor] = new],
                              queue |-> IF new = 0 THEN <<neighbor>> \o st.queue
                                        ELSE st.queue,
                              underflow |-> st.underflow \/ degree = 0],
                             checks)

RECURSIVE Relax(_, _, _)
Relax(neighbors, st, checks) ==
    IF neighbors = <<>> \/ (st.underflow /\ checks = "on") THEN st
    ELSE LET neighbor == Head(neighbors) IN
         IF neighbor \notin DOMAIN st.deg THEN Relax(Tail(neighbors), st, checks)
         ELSE LET degree == st.deg[neighbor] IN
              IF degree = 0 /\ checks = "on"
              THEN [st EXCEPT !.underflow = TRUE]
              ELSE LET new == IF degree <= 0 THEN UsizeWrapped ELSE degree - 1
                   IN  Relax(Tail(neighbors),
                             [deg |-> [st.deg EXCEPT ![neighbor] = new],
                              queue |-> IF new = 0 THEN Append(st.queue, neighbor)
                                        ELSE st.queue,
                              underflow |-> st.underflow \/ degree = 0],
                             checks)

\* The locals are dropped when the call ends.
Return(outcome) ==
    /\ pc' = "idle"
    /\ zero_in_degree' = <<>>
    /\ in_degree' = <<>>
    /\ order' = <<>>
    /\ time' = U32(0)
    /\ prev_result' = result
    /\ result' = outcome
    /\ runs' = runs + 1

\* (variant) the loop decrements the stored table itself: no per-call copy.
PopTaskOnStoredTable ==
    /\ pc = "loop"
    /\ zero_in_degree # <<>>
    /\ UNCHANGED <<tasks, dependents, iter_order, last_call, registered>>
    /\ LET task_name == Head(zero_in_degree)
           rest == Tail(zero_in_degree)
       IN  IF task_name \notin DOMAIN tasks
           THEN /\ zero_in_degree' = rest
                /\ UNCHANGED <<overflow_checks, pc, in_degree, order, time, result,
                               prev_result, runs, first_level_dep>>
           ELSE \E checks \in Builds :
                LET task == tasks[task_name]
                    sum == WideAdd(time, task.duration)
                    neighbors == IF task_name \in DOMAIN dependents
                                 THEN dependents[task_name] ELSE <<>>
                    st == Relax(neighbors,
                                [deg |-> in_degree, queue |-> rest, underflow |-> FALSE],
                                checks)
                    overflow == ~FitsU32(sum) \/ st.underflow
                IN  /\ overflow_checks' = IF overflow THEN checks ELSE overflow_checks
                    /\ IF overflow /\ checks = "on"
                       THEN \* attempt to add / subtract with overflow
                            /\ Return([kind |-> IF ~FitsU32(sum) THEN "PanicAddOverflow"
                                                ELSE "PanicSubOverflow",
                                       order |-> <<>>])
                            /\ UNCHANGED first_level_dep
                       ELSE /\ order' = Append(order, <<task_name, time, task.duration>>)
                            /\ time' = WrapU32(sum)
                            /\ in_degree' = st.deg
                            /\ first_level_dep' = st.deg
                            /\ zero_in_degree' = st.queue
                            /\ UNCHANGED <<pc, result, prev_result, runs>>

\* Lines 90-131: one iteration of the while loop.
PopTask ==
    /\ pc = "loop"
    /\ zero_in_degree # <<>>
    /\ UNCHANGED <<stored, last_call, registered>>
    /\ LET task_name == Head(zero_in_degree)
           rest == Tail(zero_in_degree)
       IN  IF task_name \notin DOMAIN tasks
           THEN /\ zero_in_degree' = rest
                /\ UNCHANGED <<overflow_checks, pc, in_degree, order, time, result,
                               prev_result, runs>>
           ELSE \E checks \in Builds :
                LET task == tasks[task_name]
                    sum == WideAdd(time, task.duration)
                    neighbors == IF task_name \in DOMAIN dependents
                                 THEN dependents[task_name] ELSE <<>>
                    st == Relax(neighbors,
                                [deg |-> in_degree, queue |-> rest, underflow |-> FALSE],
                                checks)
                    overflow == ~FitsU32(sum) \/ st.underflow
                IN  /\ overflow_checks' = IF overflow THEN checks ELSE overflow_checks
                    /\ IF overflow /\ checks = "on"
                       THEN \* attempt to add (line 108) / subtract (line 118) with
                            \* overflow
                            Return([kind |-> IF ~FitsU32(sum) THEN "PanicAddOverflow"
                                             ELSE "PanicSubOverflow",
                                    order |-> <<>>])
                       ELSE /\ order' = Append(order, <<task_name, time, task.duration>>)
                            /\ time' = WrapU32(sum)
                            /\ in_degree' = st.deg
                            /\ zero_in_degree' = st.queue
                            /\ UNCHANGED <<pc, result, prev_result, runs>>

\* (variant) a scheduler without tasks is answered with NoTaskFound.
ScheduleReturnNoTaskFound ==
    /\ pc = "loop"
    /\ zero_in_degree = <<>>
    /\ UNCHANGED <<stored, overflow_checks, last_call, registered>>
    /\ LET order_len == Len(order)
           tasks_len == Cardinality(DOMAIN tasks)
       IN  Return(CASE tasks_len = 0 ->
                         [kind |-> "NoTaskFound", order |-> <<>>]
                    [] order_len < tasks_len ->
                         [kind |-> "CycleDetected", order |-> <<>>]
                    [] order_len = tasks_len ->
                         [kind |-> "Ok", order |-> order]
                    [] OTHER ->
                         [kind |-> "PanicUnreachable", order |-> <<>>])

\* Lines 136-157: the frontier is empty; compare the counts.
ScheduleReturn ==
    /\ pc = "loop"
    /\ zero_in_degree = <<>>
    /\ UNCHANGED <<stored, overflow_checks, last_call, registered>>
    /\ LET order_len == Len(order)
           tasks_len == Cardinality(DOMAIN tasks)
       IN  Return(CASE order_len < tasks_len ->
                         [kind |-> "CycleDetected", order |-> <<>>]
                    [] order_len = tasks_len ->
                         [kind |-> "Ok", order |-> order]
                    [] OTHER -> \* unreachable!()
                         [kind |-> "PanicUnreachable", order |-> <<>>])

Next ==
    \/ \E c \in Calls : AddTask(c.name, c.dependencies, c.duration)
    \/ ScheduleBegin
    \/ PopTask
    \/ ScheduleReturn

Spec == Init /\ [][Next]_vars

\* ----------------------------------------------------- the test scenarios
\* The add_task calls of the diamond (test_non_cylce, with D first there) and of
\* the two independent tasks; the callers may make them in any order.
ScenarioCalls ==
    {[name |-> "A", dependencies |-> <<>>, duration |-> U32(3)],
     [name |-> "B", dependencies |-> <<"A">>, duration |-> U32(2)],
     [name |-> "C", dependencies |-> <<"A">>, duration |-> U32(1)],
     [name |-> "D", dependencies |-> <<"B", "C">>, duration |-> U32(4)],
     [name |-> "A", dependencies |-> <<>>, duration |-> U32(5)],
     [name |-> "B", dependencies |-> <<>>, duration |-> U32(2)]}

NextScenarios ==
    \/ \E c \in ScenarioCalls : AddTask(c.name, c.dependencies, c.duration)
    \/ ScheduleBegin
    \/ PopTask
    \/ ScheduleReturn

SpecScenarios == Init /\ [][NextScenarios]_vars

\* ------------------------------------------------- vocabulary of the claims
Registered == DOMAIN tasks
DepsOf(t) == {tasks[t].dependencies[i] : i \in DOMAIN tasks[t].dependencies}

\* The registered tasks reached from S along declared dependencies.
Succ(S) == UNION {DepsOf(t) \cap Registered : t \in S}
RECURSIVE ReachFrom(_, _)
ReachFrom(S, n) == IF n = 0 THEN S ELSE ReachFrom(S \cup Succ(S), n - 1)

\* The dependency graph has a cycle (a self-dependency included).
Cyclic == \E t \in Registered : t \in ReachFrom(Succ({t}), Cardinality(Registered))

\* Every declared dependency is a registered task.
NoDangling == \A t \in Registered : DepsOf(t) \subseteq Registered

\* A schedule_tasks call has ended and its outcome is in result.
Done == pc = "idle" /\ result.kind # "None"

EntryName(e) == e[1]
EntryStart(e) == e[2]
EntryDuration(e) == e[3]

\* The places of task t in a sequence of entries.
Places(entries, t) == {i \in DOMAIN entries : EntryName(entries[i]) = t}

\* One entry per registered task: none missing, none repeated, none foreign.
OneEntryEach(entries) ==
    /\ \A t \in Registered : Cardinality(Places(entries, t)) = 1
    /\ \A i \in DOMAIN entries : EntryName(entries[i]) \in Registered

\* The mathematical sum of the durations of the first n entries.
RECURSIVE SumDurations(_, _)
SumDurations(entries, n) ==
    IF n = 0 THEN U32(0)
    ELSE WideAdd(SumDurations(entries, n - 1), EntryDuration(entries[n]))

\* The mathematical sum of the durations of the tasks of S.
RECURSIVE SumRegistered(_)
SumRegistered(S) ==
    IF S = {} THEN U32(0)
    ELSE LET t == CHOOSE x \in S : TRUE
         IN  WideAdd(SumRegistered(S \ {t}), tasks[t].duration)

\* C1: when the registered dependency graph has no cycle, schedule_tasks returns
\* Ok with exactly one entry per registered task; it returns CycleDetected only
\* when the graph has a cycle.
C1_AcyclicGivesOneEntryEach ==
    (Done /\ ~Cyclic) => (result.kind = "Ok" /\ OneEntryEach(result.order))

\* C2: in every Ok result, every declared dependency D of every task T stands
\* before T and start(T) >= start(D) + duration(D).
C2_DependenciesFinishFirst ==
    (Done /\ result.kind = "Ok") =>
        \A t \in Registered : \A d \in DepsOf(t) :
            \A i \in Places(result.order, t) :
                \E j \in Places(result.order, d) :
                    /\ j < i
                    /\ Geq(EntryStart(result.order[i]),
                           WideAdd(EntryStart(result.order[j]),
                                   EntryDuration(result.order[j])))

\* C3: when the dependency graph has a cycle, schedule_tasks returns
\* CycleDetected and no entries.
C3_CycleGivesCycleDetected ==
    (Done /\ Cyclic) => (result.kind = "CycleDetected" /\ result.order = <<>>)

\* C4: in every Ok result the first entry starts at 0 and every later entry
\* starts at the previous entry's start plus the previous entry's duration.
C4_StartsAreCumulative ==
    (Done /\ result.kind = "Ok") =>
        \A i \in DOMAIN result.order :
            IF i = 1 THEN EntryStart(result.order[i]) = U32(0)
            ELSE EntryStart(result.order[i]) =
                     WideAdd(EntryStart(result.order[i - 1]),
                             EntryDuration(result.order[i - 1]))

\* C5: for a non-empty acyclic scheduler (every dependency registered) the last
\* entry's start plus its duration is the sum of all registered durations, and
\* at every step of the loop `time` is the sum of the durations pushed so far.
C5_TimeIsTheExactSum ==
    /\ (Done /\ ~Cyclic /\ NoDangling /\ Registered # {}) =>
           /\ result.kind = "Ok"
           /\ Len(result.order) > 0
           /\ LET last == result.order[Len(result.order)]
              IN  WideAdd(EntryStart(last), EntryDuration(last)) =
                      SumRegistered(Registered)
    /\ (pc = "loop") => time = SumDurations(order, Len(order))

\* C6: two schedule_tasks calls with no add_task call in between have the same
\* outcome: the same kind and, when Ok, the same entries in the same order.
C6_SecondCallRepeatsFirst ==
    (pc = "idle" /\ prev_result.kind # "None") => result = prev_result

\* Two calls were made on three tasks of which several were seeds.
C6_Witness ==
    /\ pc = "idle"
    /\ prev_result.kind = "Ok"
    /\ Len(prev_result.order) = 3
    /\ Len(iter_order) >= 2
    /\ result = prev_result

\* The registry of the diamond, and its two schedules.
IsDiamond ==
    tasks = [t \in {"A", "B", "C", "D"} |->
                CASE t = "A" -> [dependencies |-> <<>>, duration |-> U32(3)]
                  [] t = "B" -> [dependencies |-> <<"A">>, duration |-> U32(2)]
                  [] t = "C" -> [dependencies |-> <<"A">>, duration |-> U32(1)]
                  [] t = "D" -> [dependencies |-> <<"B", "C">>, duration |-> U32(4)]]

DiamondABCD ==
    [kind |-> "Ok",
     order |-> << <<"A", U32(0), U32(3)>>, <<"B", U32(3), U32(2)>>,
                  <<"C", U32(5), U32(1)>>, <<"D", U32(6), U32(4)>> >>]

DiamondACBD ==
    [kind |-> "Ok",
     order |-> << <<"A", U32(0), U32(3)>>, <<"C", U32(3), U32(1)>>,
                  <<"B", U32(4), U32(2)>>, <<"D", U32(6), U32(4)>> >>]

\* C7 as stated: the diamond is scheduled A, B, C, D with offsets 0, 3, 5, 6 in
\* whichever order its four tasks were registered.
C7_DiamondInAnyOrder == (Done /\ IsDiamond) => result = DiamondABCD

\* Task a was registered before task b.
RegisteredBefore(a, b) ==
    \E i, j \in DOMAIN registered : i < j /\ registered[i] = a /\ registered[j] = b

\* C7 as amended: A, B, C, D with offsets 0, 3, 5, 6 when B was registered before
\* C, and A, C, B, D with offsets 0, 3, 4, 6 when C was registered before B.
C7_DiamondFollowsRegistration ==
    (Done /\ IsDiamond) =>
        result = IF RegisteredBefore("B", "C") THEN DiamondABCD ELSE DiamondACBD

\* The diamond with C registered before B has been scheduled.
C7_Witness ==
    Done /\ IsDiamond /\ RegisteredBefore("C", "B") /\ result = DiamondACBD

\* The registry of the two independent tasks.
IsIndependent ==
    tasks = [t \in {"A", "B"} |->
                IF t = "A" THEN [dependencies |-> <<>>, duration |-> U32(5)]
                ELSE [dependencies |-> <<>>, duration |-> U32(2)]]

Starts(entries) == {EntryStart(entries[i]) : i \in DOMAIN entries}

\* The last entry's start plus its duration.
Span(entries) ==
    WideAdd(EntryStart(entries[Len(entries)]), EntryDuration(entries[Len(entries)]))

\* C8 as stated: A(5) and B(2), independent, are both scheduled, the start
\* offsets are {0, 5} whichever is seeded first, and the span is 7.
C8_IndependentStarts ==
    (Done /\ IsIndependent) =>
        /\ result.kind = "Ok"
        /\ OneEntryEach(result.order)
        /\ Starts(result.order) = {U32(0), U32(5)}
        /\ Span(result.order) = U32(7)

\* C8 as amended: both are scheduled and the span is 7; the start offsets are
\* {0, 5} when the iteration of the in-degree table meets A first, and {0, 2}
\* when it meets B first.
C8_IndependentStartsBySeed ==
    (Done /\ IsIndependent) =>
        /\ result.kind = "Ok"
        /\ OneEntryEach(result.order)
        /\ Starts(result.order) = IF iter_order[1] = "A" THEN {U32(0), U32(5)}
                                  ELSE {U32(0), U32(2)}
        /\ Span(result.order) = U32(7)

\* The two independent tasks have been scheduled with B seeded first.
C8_Witness ==
    Done /\ IsIndependent /\ iter_order[1] = "B"
         /\ Starts(result.order) = {U32(0), U32(2)}

\* C9: an add_task call with a registered name panics and leaves the registry,
\* the in-degree table and the reverse-dependency index as they were; every
\* add_task call that succeeds registers a new name and leaves the earlier
\* registrations as they were.
C9_DuplicateAddChangesNothing ==
    [][/\ (pc = "idle" /\ last_call' = "add_task_panic") => UNCHANGED stored
       /\ (pc = "idle" /\ pc' = "idle") =>
              /\ first_level_dep' # first_level_dep => last_call' = "add_task"
              /\ dependents' # dependents => last_call' = "add_task"
              /\ tasks' # tasks =>
                     /\ last_call' = "add_task"
                     /\ Cardinality(DOMAIN tasks') = Cardinality(Registered) + 1
                     /\ \A t \in Registered : t \in DOMAIN tasks' /\ tasks'[t] = tasks[t]
      ]_vars

\* An add_task call has been rejected on a scheduler that holds tasks.
C9_Witness == last_call = "add_task_panic" /\ Registered # {} /\ pc = "idle"

\* C10: no step of schedule_tasks changes the registry, the stored in-degree
\* table or the reverse-dependency index, and after every call the stored
\* in-degree of every task is the length of its dependency list.
C10_ScheduleLeavesStoredState ==
    /\ [][(pc = "loop" \/ pc' = "loop") =>
              UNCHANGED <<tasks, first_level_dep, dependents>>]_vars
    /\ [](Done => \A t \in Registered :
                      /\ t \in DOMAIN first_level_dep
                      /\ first_level_dep[t] = Len(tasks[t].dependencies))

\* Two calls have ended, the last one Ok on three tasks, one with two
\* dependencies whose count the loop brought to 0.
C10_Witness ==
    /\ Done
    /\ runs >= 2
    /\ result.kind = "Ok"
    /\ Len(result.order) = 3
    /\ \E t \in Registered : first_level_dep[t] = 2

\* C11: a dependency that is never registered is ignored: when the graph is
\* otherwise acyclic, schedule_tasks returns Ok with every registered task.
C11_DanglingIsIgnored ==
    (Done /\ ~NoDangling /\ ~Cyclic) =>
        (result.kind = "Ok" /\ OneEntryEach(result.order))

\* The outcomes that are values schedule_tasks returns (a panic returns none).
Returned == {"Ok", "CycleDetected", "NoTaskFound"}

\* C12: the only error schedule_tasks returns is CycleDetected, never
\* NoTaskFound, and on a scheduler without tasks it returns Ok with no entries.
C12_OnlyCycleDetected ==
    Done =>
        /\ result.kind # "NoTaskFound"
        /\ (result.kind \in Returned /\ result.kind # "Ok") =>
               result.kind = "CycleDetected"
        /\ Registered = {} => result = [kind |-> "Ok", order |-> <<>>]

\* schedule_tasks has returned on a scheduler without tasks.
C12_Witness == Done /\ Registered = {} /\ result.kind = "Ok"

\* The names of a sequence of entries, in order.
EntryNames(entries) == [i \in DOMAIN entries |-> EntryName(entries[i])]

\* Every task pushed to the frontier so far, in the order of the pushes: the
\* ones already popped, then the ones still waiting.
PushLog == EntryNames(order) \o zero_in_degree

NoRepeat(seq) == \A i, j \in DOMAIN seq : seq[i] = seq[j] => i = j

\* C13: during a run no task is pushed to the frontier twice or popped twice,
\* the entries never outnumber the registered tasks, and the unreachable!()
\* arm is not reached.
C13_PushedAndPoppedOnce ==
    /\ pc = "loop" =>
           /\ NoRepeat(PushLog)
           /\ \A i \in DOMAIN PushLog : PushLog[i] \in Registered
           /\ Len(order) <= Cardinality(Registered)
    /\ result.kind # "PanicUnreachable"

\* A run has ended Ok on a registry with a dependency named twice in one list.
C13_Witness ==
    /\ Done
    /\ result.kind = "Ok"
    /\ \E t \in Registered :
           /\ Len(tasks[t].dependencies) = 2
           /\ tasks[t].dependencies[1] = tasks[t].dependencies[2]

\* The phase of task t in a run whose working table is deg, whose frontier is
\* queue and whose entries are entries; "None" when t is in no phase or in two.
Elems(seq) == {seq[i] : i \in DOMAIN seq}
PhaseIn(deg, queue, entries, t) ==
    LET ready == t \in Elems(queue)
        scheduled == t \in Elems(EntryNames(entries))
    IN  CASE deg[t] > 0 /\ ~ready /\ ~scheduled -> "Blocked"
          [] deg[t] = 0 /\ ready /\ ~scheduled -> "Ready"
          [] deg[t] = 0 /\ ~ready /\ scheduled -> "Scheduled"
          [] OTHER -> "None"

Phase(t) == PhaseIn(in_degree, zero_in_degree, order, t)

\* C14: within a run every task is Blocked, Ready or Scheduled; seeding makes
\* Ready the tasks without dependencies and Blocked the others; a Blocked task
\* becomes Ready only in the step that dequeues one of its declared dependencies,
\* a Ready task becomes Scheduled only by being the one dequeued, and no task
\* goes back.
C14_PhasesOnlyForward ==
    [][/\ (pc = "idle" /\ pc' = "loop") =>
              \A t \in Registered :
                  PhaseIn(in_degree', zero_in_degree', order', t) =
                      IF first_level_dep[t] = 0 THEN "Ready" ELSE "Blocked"
       /\ (pc = "loop" /\ pc' = "loop") =>
              \A t \in Registered :
                  LET after == PhaseIn(in_degree', zero_in_degree', order', t)
                      popped == Head(zero_in_degree)
                  IN  CASE Phase(t) = "Blocked" ->
                               \/ after = "Blocked"
                               \/ after = "Ready" /\ popped \in DepsOf(t)
                        [] Phase(t) = "Ready" ->
                               \/ after = "Ready" /\ t # popped
                               \/ after = "Scheduled" /\ t = popped
                        [] Phase(t) = "Scheduled" -> after = "Scheduled"
                        [] OTHER -> FALSE
      ]_vars

\* In a run one task with dependencies has gone all the way to Scheduled while
\* another is still Blocked.
C14_Witness ==
    /\ pc = "loop"
    /\ \E t, u \in Registered :
           /\ first_level_dep[t] > 0
           /\ Phase(t) = "Scheduled"
           /\ Phase(u) = "Blocked"

\* How often name d occurs in a dependency list.
Occurrences(d, deps) == Cardinality({i \in DOMAIN deps : deps[i] = d})

\* The reverse list of d that the first k registrations call for: every
\* dependent, in the order of registration, once per occurrence of d in its list.
RECURSIVE ExpectedReverse(_, _)
ExpectedReverse(d, k) ==
    IF k = 0 THEN <<>>
    ELSE LET t == registered[k]
         IN  ExpectedReverse(d, k - 1) \o
                 [i \in 1..Occurrences(d, tasks[t].dependencies) |-> t]

\* C15: after any add_task calls, accepted or rejected, the registry and the
\* in-degree table have the same keys, the stored in-degree of a task is the
\* length of its dependency list, and the reverse list of every name d holds
\* each task as often as d occurs in that task's list, in the order the tasks
\* were registered, whether d is registered or not.
C15_IndexMatchesRegistry ==
    /\ DOMAIN first_level_dep = Registered
    /\ Elems(registered) = Registered
    /\ \A t \in Registered : first_level_dep[t] = Len(tasks[t].dependencies)
    /\ DOMAIN dependents = UNION {DepsOf(t) : t \in Registered}
    /\ \A d \in DOMAIN dependents :
           dependents[d] = ExpectedReverse(d, Len(registered))

\* A call was rejected on a scheduler where a name that is not registered has a
\* reverse list and some task names a dependency twice.
C15_Witness ==
    /\ last_call = "add_task_panic"
    /\ DOMAIN dependents \ Registered # {}
    /\ \E t \in Registered : \E d \in DepsOf(t) :
           Occurrences(d, tasks[t].dependencies) = 2

\* seq is a sequence that starts with pre.
IsPrefix(pre, seq) ==
    Len(pre) <= Len(seq) /\ SubSeq(seq, 1, Len(pre)) = pre

\* a stands before b somewhere in seq.
Before(seq, a, b) == \E i, j \in DOMAIN seq : i < j /\ seq[i] = a /\ seq[j] = b

\* C16: the frontier is FIFO. An iteration moves the head of the frontier to
\* the end of the result and adds the dependents it made ready at the back of
\* the frontier, each once, in the order of the reverse list of the task
\* dequeued, which is the order of their registration; so the entries of an Ok
\* result stand in the order of the pushes.
C16_FrontierIsFifo ==
    [][/\ (pc = "loop" /\ pc' = "loop") =>
              LET popped == Head(zero_in_degree)
                  list == IF popped \in DOMAIN dependents
                          THEN dependents[popped] ELSE <<>>
                  newly == SubSeq(zero_in_degree', Len(zero_in_degree),
                                  Len(zero_in_degree'))
              IN  /\ EntryNames(order') = Append(EntryNames(order), popped)
                  /\ IsPrefix(Tail(zero_in_degree), zero_in_degree')
                  /\ IsPrefix(PushLog, PushLog')
                  /\ NoRepeat(newly)
                  /\ Elems(newly) = {t \in Registered :
                                         in_degree[t] > 0 /\ in_degree'[t] = 0}
                  /\ Elems(newly) \subseteq Elems(list)
                  /\ \A i, j \in DOMAIN newly :
                         i < j => /\ Before(list, newly[i], newly[j])
                                  /\ RegisteredBefore(newly[i], newly[j])
       /\ (pc = "loop" /\ pc' = "idle" /\ result'.kind = "Ok") =>
              EntryNames(result'.order) = PushLog
      ]_vars

\* The last dequeue made two dependents ready behind a task that was waiting.
C16_Witness ==
    /\ pc = "loop"
    /\ Len(order) = 1
    /\ Len(zero_in_degree) = 2
    /\ first_level_dep[zero_in_degree[1]] > 0
    /\ first_level_dep[zero_in_degree[2]] > 0

\* The tasks a run can dequeue, computed from the registry alone: a task joins
\* once all the names it declares have joined (n rounds).
RECURSIVE SchedulableIn(_, _)
SchedulableIn(S, n) ==
    IF n = 0 THEN S
    ELSE SchedulableIn(S \cup {t \in Registered : DepsOf(t) \subseteq S}, n - 1)

Schedulable == SchedulableIn({}, Cardinality(Registered))

\* The outcome the registry calls for when no addition overflows.
OutcomeOfRegistry == IF Schedulable = Registered THEN "Ok" ELSE "CycleDetected"

\* C17: the outcome of schedule_tasks is a function of the set of registered
\* tasks, not of the order of the add_task calls: its kind is fixed by the
\* registry (and the run panics on the time overflow in the same registries,
\* whatever the order); an Ok result holds the (name, duration) pair of every
\* registered task and no other entry; and every declared dependency stands
\* before its dependent, registered earlier or later than it.
C17_OutcomeIgnoresRegistrationOrder ==
    Done =>
        /\ result.kind =
               IF ~FitsU32(SumRegistered(Schedulable)) /\ overflow_checks = "on"
               THEN "PanicAddOverflow"
               ELSE OutcomeOfRegistry
        /\ FitsU32(SumRegistered(Schedulable)) \/ overflow_checks # "unknown"
        /\ result.kind = "Ok" =>
               /\ Len(result.order) = Cardinality(Registered)
               /\ {<<EntryName(result.order[i]), EntryDuration(result.order[i])>> :
                       i \in DOMAIN result.order} =
                  {<<t, tasks[t].duration>> : t \in Registered}
               /\ \A t \in Registered : \A d \in DepsOf(t) :
                      Before(EntryNames(result.order), d, t)

\* An Ok result of three entries where a task was registered before a
\* dependency it declares.
C17_Witness ==
    /\ Done
    /\ result.kind = "Ok"
    /\ Len(result.order) = 3
    /\ \E t \in Registered : \E d \in DepsOf(t) : RegisteredBefore(t, d)

\* schedule_tasks is a plain function call: once begun, its loop takes its next
\* iteration and its final match is made.
SpecFair == Spec /\ WF_vars(PopTask) /\ WF_vars(ScheduleReturn)

Pops == Len(order)

\* C18: schedule_tasks terminates on every registered graph: the frontier is
\* empty after at most as many pops as there are registered tasks, and the call
\* then returns Ok or CycleDetected.
C18_ReturnsOkOrCycleDetected ==
    /\ [](pc = "loop" => Pops + Len(zero_in_degree) <= Cardinality(Registered))
    /\ (pc = "loop") ~> (Done /\ result.kind \in {"Ok", "CycleDetected"})

\* The call ends in every case, by a return or by the panic of the overflow.
C18_CallEnds ==
    /\ [](pc = "loop" => Pops + Len(zero_in_degree) <= Cardinality(Registered))
    /\ (pc = "loop") ~>
           (Done /\ result.kind \in {"Ok", "CycleDetected", "PanicAddOverflow"})

\* The names dequeued so far in the run.
Popped == Elems(EntryNames(order))

\* The decrements the run has applied to task t: one per place of its list
\* that names a task dequeued so far.
Decrements(t) ==
    Cardinality({i \in DOMAIN tasks[t].dependencies :
                     tasks[t].dependencies[i] \in Popped})

\* C19: the working in-degree of a task is never decremented at 0: in every
\* state of the loop it is the initial in-degree less the decrements applied,
\* which never outnumber it, so `*degree -= 1` never underflows, also with a
\* repeated dependency name or a task that depends on itself.
C19_DegreeNeverUnderflows ==
    /\ pc = "loop" =>
           \A t \in Registered :
               /\ in_degree[t] = first_level_dep[t] - Decrements(t)
               /\ in_degree[t] >= 0
               /\ in_degree[t] # UsizeWrapped
               /\ Decrements(t) <= first_level_dep[t]
    /\ result.kind # "PanicSubOverflow"
    /\ prev_result.kind # "PanicSubOverflow"

\* A run brought to 0 the count of a task that names one dependency twice,
\* with a task that depends on itself registered.
C19_Witness ==
    /\ pc = "loop"
    /\ \E t \in Registered : \E d \in DepsOf(t) :
           /\ Occurrences(d, tasks[t].dependencies) = 2
           /\ in_degree[t] = 0
    /\ \E s \in Registered : s \in DepsOf(s)

\* C20: every name in the frontier is a registered task and every name in a
\* reverse list has an in-degree entry, in the stored table and in the copy of
\* the run, so that `self.tasks.get` and `in_degree.get_mut` always find their
\* key and the branches for unknown names are not taken.
C20_LookupsSucceed ==
    /\ Elems(zero_in_degree) \subseteq DOMAIN tasks
    /\ \A d \in DOMAIN dependents :
           Elems(dependents[d]) \subseteq DOMAIN first_level_dep
    /\ pc = "loop" =>
           /\ DOMAIN in_degree = DOMAIN first_level_dep
           /\ \A d \in DOMAIN dependents :
                  Elems(dependents[d]) \subseteq DOMAIN in_degree

\* A run is about to dequeue a task that has dependents while a name that is
\* not registered has a reverse list.
C20_Witness ==
    /\ pc = "loop"
    /\ zero_in_degree # <<>>
    /\ Head(zero_in_degree) \in DOMAIN dependents
    /\ DOMAIN dependents \ Registered # {}

====
